---------------------------- MODULE Spec2Model ----------------------------
(***************************************************************************)
(* A model of the starflyer micro framework:                               *)
(*   - starflyer/app.py      Application: route table, request dispatch    *)
(*                           and the exception-to-response cascade         *)
(*   - starflyer/form/*.py   Form.process and the widgets' get_value        *)
(*   - starflyer/handler.py  Handler: flash messages, render, handle       *)
(*                                                                         *)
(* Several specifications share the module.  Spec drives requests through *)
(* one Application whose configuration and error-handler registry are     *)
(* drawn in Init; SpecRoutes draws the route registrations instead;        *)
(* SpecForm and SpecFlash model the form layer and the Handler; the        *)
(* smaller parts (SpecConfig, ...) have a specification each.              *)
(*                                                                         *)
(* User code (hooks, handlers, error handlers) is an input: every call of  *)
(* user code either returns or raises, chosen with \E.  Logging            *)
(* (logbook) has no effect on the modelled state and is left out.          *)
(***************************************************************************)
EXTENDS Integers, Sequences, FiniteSets, TLC

VARIABLES
    \* ---- Application (app.py)
    url_map,             \* self.url_map: the rules, in matching order
    handlers,            \* self.handlers: endpoint -> handler class
    registered,          \* history: the add_url_rule calls made by user code
    phase,               \* "init" (__init__ runs) / "setup" / "serving"
    error_handlers,      \* Application.error_handlers, keys in dict order
    config,              \* self.config (the keys the model reads)
    got_first_request,   \* self._got_first_request
    pc,                  \* position inside __call__ / process_request
    request,             \* the request being processed (its path)
    handler,             \* process_request's local `handler`
    session,             \* handler.session
    exc,                 \* the exception in flight
    response,            \* process_request's / __call__'s local `response`
    \* ---- history of the Application run
    nreq,                \* requests started
    budget,              \* requests the run may still start
    restarts,            \* times run() ended and reset the flag
    hookCalls,           \* invocations of before_first_request, in total
    hookRaised,          \* whether some invocation raised
    routing,             \* this request: "none" / "matched" / "notfound"
    dispatched,          \* this request: the class find_handler instantiated
    invoked,             \* this request: the call_error_handler calls
    sessionSaved,        \* this request: save_session was called
    finalized,           \* this request: finalize_response calls that returned
    outcome,             \* this request: "none" / "response" / "escaped"
    \* ---- Form (form/core.py)
    widgets,             \* Form.data: widget name -> widget
    form_request,        \* Form.request: absent, or the submitted form data
    form_processors_out, \* Form.processors_out
    fpc,                 \* position inside Form.process
    obj,                 \* the obj argument of Form.process
    remaining,           \* names self.data.items() has still to yield
    result,              \* Form.process's local result
    errors,              \* Form.process's local errors
    evaluated,           \* history: names get_value was called for
    formOutcome,         \* how Form.process ended
    \* ---- Handler (handler.py) and the client's cookies
    cookies,             \* the cookies the client sends with a request
    hpc,                 \* "none" / "constructed" / "running" / "finished"
    messages_in,         \* Handler.messages_in
    messages_out,        \* Handler.messages_out
    aliased,             \* the two attributes are one list object
    handled,             \* handle() has decoded the cookie
    hreq,                \* number of the request the handler serves
    ops,                 \* flash and render calls made by this handler
    flashCount,          \* flash calls made by this handler
    renders,             \* history: the flash_messages of this request's renders
    flashed,             \* history: the messages queued in this request
    flashed_before,      \* history: the messages queued in the previous request
    pending,             \* history: the messages queued when the previous request ended
    shown_before,        \* history: the carried messages the previous request showed
    \* ---- Application.__init__: the layers of the configuration
    class_defaults,      \* Application.defaults of the class
    ctor_config,         \* the config argument of __init__
    ctor_kw,             \* the keyword arguments of __init__
    cpc,                 \* position inside lines 96-99 of __init__
    \* ---- Handler.handle: the choice of the method
    hrequest,            \* the request: its method and its values
    hclass,              \* the verb-named methods the handler class defines
    hcalled,             \* the attribute handle() called ("None": none)
    hresult,             \* what handle() returned or raised
    dpc,                 \* "idle" / "ready" / "done"
    \* ---- threads of the hosting server inside check_first_request
    tpc,                 \* thread -> its position
    served,              \* thread -> requests it has started
    \* ---- the value a widget displays (form/core.py)
    form_default,        \* Form.default: widget name -> value
    widget_processors_in,\* Widget.processors_in
    displayed            \* the call made for a widget and how it ended

appVars == <<url_map, handlers, registered, phase, error_handlers, config,
             got_first_request, pc, request, handler, session, exc, response,
             nreq, budget, restarts, hookCalls, hookRaised, routing, dispatched,
             invoked, sessionSaved, finalized, outcome>>

formVars == <<widgets, form_request, form_processors_out, fpc, obj, remaining,
              result, errors, evaluated, formOutcome>>

flashVars == <<cookies, hpc, messages_in, messages_out, aliased, handled, hreq,
               ops, flashCount, renders, flashed, flashed_before,
                   pending, shown_before>>

setupVars == <<class_defaults, ctor_config, ctor_kw, cpc>>

\* The variables of the smaller parts, each with a specification of its own.
dispatchVars == <<hrequest, hclass, hcalled, hresult, dpc>>
threadVars == <<tpc, served>>
displayVars == <<form_default, widget_processors_in, displayed>>
partVars == <<setupVars, dispatchVars, threadVars, displayVars>>

vars == <<appVars, formVars, flashVars, partVars>>

\* What the actions of one component leave alone.
nonAppVars == <<formVars, flashVars, partVars>>
nonFormVars == <<appVars, flashVars, partVars>>
nonFlashVars == <<appVars, formVars, partVars>>
nonConfigVars == <<url_map, handlers, registered, phase, error_handlers,
                   got_first_request, pc, request, handler, session, exc, response,
                   nreq, budget, restarts, hookCalls, hookRaised, routing,
                   dispatched, invoked, sessionSaved, finalized, outcome,
                   formVars, flashVars, dispatchVars, threadVars, displayVars>>
nonThreadVars == <<url_map, handlers, registered, phase, error_handlers, config,
                   pc, request, handler, session, exc, response, nreq, budget,
                   restarts, hookRaised, routing, dispatched, invoked,
                   sessionSaved, finalized, outcome,
                   formVars, flashVars, setupVars, dispatchVars, displayVars>>

---------------------------------------------------------------------------
\* Bounds of the model.
MaxRequests == 2
MaxRestarts == 1
MaxRoutes == 2
MaxFlashRequests == 3
MaxOps == 3
MaxThreads == 3

---------------------------------------------------------------------------
\* Exceptions.  An exception is [http, code, type]; werkzeug's
\* HTTPException carries a status code, any other exception has code 0.
NoExc == [http |-> FALSE, code |-> 0, type |-> "None"]
HttpExc(c, t) == [http |-> TRUE, code |-> c, type |-> t]
OtherExc(t) == [http |-> FALSE, code |-> 0, type |-> t]
NotFound == HttpExc(404, "NotFound")
Forbidden == HttpExc(403, "Forbidden")
AppError == OtherExc("AppError")
KeyError == OtherExc("KeyError")

\* What user code (hook, handler, error handler, finalize hook) may raise.
UserExceptions == {Forbidden, AppError}

\* isinstance(e, typecheck) for the exception classes an application
\* registers: every exception is an instance of Exception.
IsInstance(e, t) == e.type = t \/ t = "Exception"

\* Keys of Application.error_handlers: status codes and exception classes.
CodeKey(c) == [code |-> c, type |-> ""]
TypeKey(t) == [code |-> 0, type |-> t]
NoKey == [code |-> 0, type |-> ""]
IsNumeric(k) == k.code # 0

InSeq(x, s) == \E i \in DOMAIN s : s[i] = x

\* Responses.  kind: "handler" (returned by the routed handler),
\* "error_handler" (returned by a registered error handler), "exception"
\* (an HTTPException used as the response), "ise" (werkzeug's
\* InternalServerError made by the framework), "none".
Resp(kind, h, k, e, d) == [kind |-> kind, handler |-> h, key |-> k, exc |-> e, detail |-> d]
NoResponse == Resp("none", "None", NoKey, NoExc, "")
HandlerResponse(h) == Resp("handler", h, NoKey, NoExc, "")
ErrorHandlerResponse(k, e) == Resp("error_handler", "None", k, e, "")
ExceptionResponse(e) == Resp("exception", "None", NoKey, e, "")
InternalServerError(d) == Resp("ise", "None", NoKey, NoExc, d)

NoHandler == "None"
StaticFileHandler == "StaticFileHandler"
NoEndpoint == "None"
StaticEndpoint == "static"
StaticPath == "/static/f"
UnknownPath == "/nope"


---------------------------------------------------------------------------
\* Configuration (app.py 59-75, 95-99): the keys the dispatch code reads.
\* propagate_exceptions is None, True or False.
Tri == {"None", "True", "False"}
Configs == [propagate_exceptions : Tri, testing : BOOLEAN, debug : BOOLEAN]
enforced_defaults == [propagate_exceptions |-> "None", testing |-> FALSE, debug |-> FALSE]

\* Mutant of propagate_exceptions: the configured value is ignored.
propagate_exceptions_unconfigured == config.testing \/ config.debug

\* Application.propagate_exceptions (property).
propagate_exceptions ==
    IF config.propagate_exceptions # "None"
    THEN config.propagate_exceptions = "True"
    ELSE config.testing \/ config.debug

\* The layers __init__ merges (95-99).  A layer is a dict: it defines some
\* of the keys; log_filename is a key outside the enforced defaults.
LayerChoices ==
    [propagate_exceptions : {"absent", "True", "False"},
     debug : {"absent", "on", "off"},
     log_filename : {"absent", "app.log"}]
Layer(c) ==
    [k \in {x \in DOMAIN c : c[x] # "absent"} |->
        IF k = "debug" THEN c[k] = "on" ELSE c[k]]
Layers == {Layer(c) : c \in LayerChoices}
NoConfig == [k \in {} |-> FALSE]

\* Mutant of dict_update: the entries already present are kept.
dict_setdefaults(d, e) ==
    [k \in (DOMAIN d) \cup (DOMAIN e) |-> IF k \in DOMAIN d THEN d[k] ELSE e[k]]

\* d.update(e): the entries of e replace and extend those of d.
dict_update(d, e) ==
    [k \in (DOMAIN d) \cup (DOMAIN e) |-> IF k \in DOMAIN e THEN e[k] ELSE d[k]]

\* Line 96: self.config = AttributeMapper(self.enforced_defaults or {}),
\* a new mapping holding the entries of the enforced defaults.
config_enforced ==
    /\ UNCHANGED nonConfigVars
    /\ cpc = "new"
    /\ config' = dict_update(NoConfig, enforced_defaults)
    /\ cpc' = "enforced"
    /\ UNCHANGED <<class_defaults, ctor_config, ctor_kw>>

\* Line 97: self.config.update(self.defaults)
config_defaults ==
    /\ UNCHANGED nonConfigVars
    /\ cpc = "enforced"
    /\ config' = dict_update(config, class_defaults)
    /\ cpc' = "defaults"
    /\ UNCHANGED <<class_defaults, ctor_config, ctor_kw>>

\* Line 98: self.config.update(config)
config_config ==
    /\ UNCHANGED nonConfigVars
    /\ cpc = "defaults"
    /\ config' = dict_update(config, ctor_config)
    /\ cpc' = "config"
    /\ UNCHANGED <<class_defaults, ctor_config, ctor_kw>>

\* Line 99: self.config.update(kw)
config_kw ==
    /\ UNCHANGED nonConfigVars
    /\ cpc = "config"
    /\ config' = dict_update(config, ctor_kw)
    /\ cpc' = "done"
    /\ UNCHANGED <<class_defaults, ctor_config, ctor_kw>>

Configure ==
    \/ config_enforced
    \/ config_defaults
    \/ config_config
    \/ config_kw

\* The configuration is not being built (the other specifications).
IdleSetup ==
    /\ class_defaults = NoConfig
    /\ ctor_config = NoConfig
    /\ ctor_kw = NoConfig
    /\ cpc = "idle"

---------------------------------------------------------------------------
\* Route registration.
Rule(p, ep) == [path |-> p, endpoint |-> ep]
Route(p, ep, h) == [path |-> p, endpoint |-> ep, handler |-> h]

UserPaths == {"/a", "/b"}
UserEndpoints == {NoEndpoint, "e", StaticEndpoint}
UserHandlers == {NoHandler, "H1", "H2"}

\* handlers[endpoint] = handler
SetHandler(hs, ep, h) == [x \in (DOMAIN hs) \cup {ep} |-> IF x = ep THEN h ELSE hs[x]]
NoHandlers == [x \in {} |-> NoHandler]

\* add_url_rule: the endpoint defaults to the handler's name, the rule is
\* added to the map, and the handler is stored under the endpoint.
EndpointOf(ep, h) == IF ep = NoEndpoint THEN h ELSE ep
add_url_rule_map(m, p, ep, h) == Append(m, Rule(p, EndpointOf(ep, h)))
\* Mutant of add_url_rule_handlers: the handler is stored under the
\* endpoint argument as passed, without the default taken from its name.
add_url_rule_handlers_no_default(hs, p, ep, h) ==
    IF h # NoHandler THEN SetHandler(hs, ep, h) ELSE hs

add_url_rule_handlers(hs, p, ep, h) ==
    IF h # NoHandler THEN SetHandler(hs, EndpointOf(ep, h), h) ELSE hs

\* urls.match: the first rule whose path is the request's, 0 if none
\* (werkzeug keeps rules of equal weight in the order they were added).
Match(m, p) ==
    LET hits == {i \in DOMAIN m : m[i].path = p}
    IN IF hits = {} THEN 0 ELSE CHOOSE i \in hits : \A j \in hits : i <= j

\* Application.add_url_rule, called by __init__ for the class-level routes
\* (phase "init") or by user code before the first dispatch (phase "setup").
add_url_rule(p, ep, h) ==
    /\ UNCHANGED nonAppVars
    /\ phase \in {"init", "setup"}
    /\ Len(registered) < MaxRoutes
    /\ ~(ep = NoEndpoint /\ h = NoHandler)      \* the assert of line 223
    /\ url_map' = add_url_rule_map(url_map, p, ep, h)
    /\ handlers' = add_url_rule_handlers(handlers, p, ep, h)
    /\ registered' = Append(registered, Route(p, ep, h))
    /\ UNCHANGED <<phase, error_handlers, config, got_first_request, pc, request,
                   handler, session, exc, response, nreq, budget, restarts, hookCalls,
                   hookRaised, routing, dispatched, invoked, sessionSaved, finalized, outcome>>

\* The rest of __init__ (113-127): the flag, the static rule, finalize_setup.
init_static ==
    /\ UNCHANGED nonAppVars
    /\ phase = "init"
    /\ got_first_request' = FALSE
    /\ url_map' = add_url_rule_map(url_map, StaticPath, StaticEndpoint, StaticFileHandler)
    /\ handlers' = add_url_rule_handlers(handlers, StaticPath, StaticEndpoint, StaticFileHandler)
    /\ phase' = "setup"
    /\ UNCHANGED <<registered, error_handlers, config, pc, request,
                   handler, session, exc, response, nreq, budget, restarts, hookCalls,
                   hookRaised, routing, dispatched, invoked, sessionSaved, finalized, outcome>>

---------------------------------------------------------------------------
\* Request processing.

RequestPaths == {url_map[i].path : i \in DOMAIN url_map} \cup {UnknownPath}
Sessions == {"null", "data"}
is_null_session(s) == s = "null"

\* Application.__call__ up to the call of process_request.
start_request(p) ==
    /\ UNCHANGED nonAppVars
    /\ phase \in {"setup", "serving"}
    /\ pc \in {"idle", "done"}
    /\ budget > 0
    /\ phase' = "serving"
    /\ nreq' = nreq + 1
    /\ budget' = budget - 1
    /\ request' = p
    /\ pc' = "check_first_request"
    /\ handler' = NoHandler
    /\ session' = "null"
    /\ exc' = NoExc
    /\ response' = NoResponse
    /\ routing' = "none"
    /\ dispatched' = NoHandler
    /\ invoked' = <<>>
    /\ sessionSaved' = FALSE
    /\ finalized' = 0
    /\ outcome' = "none"
    /\ UNCHANGED <<url_map, handlers, registered, error_handlers, config,
                   got_first_request, restarts, hookCalls, hookRaised>>

\* Application.check_first_request, as called by process_request (285).
\* The hook is user code: it returns or raises; the flag is set after it.
check_first_request ==
    /\ UNCHANGED nonAppVars
    /\ pc = "check_first_request"
    /\ IF got_first_request
       THEN /\ pc' = "find_handler"
            /\ UNCHANGED <<got_first_request, hookCalls, hookRaised, exc>>
       ELSE /\ hookCalls' = hookCalls + 1
            /\ \/ /\ got_first_request' = TRUE
                  /\ pc' = "find_handler"
                  /\ UNCHANGED <<hookRaised, exc>>
               \/ /\ \E x \in UserExceptions : exc' = x
                  /\ hookRaised' = TRUE
                  /\ pc' = "handle_exception"
                  /\ UNCHANGED got_first_request
    /\ UNCHANGED <<url_map, handlers, registered, phase, error_handlers, config,
                   request, handler, session, response, nreq, budget, restarts,
                   routing, dispatched, invoked, sessionSaved, finalized, outcome>>

\* check_first_request as run by the threads of the hosting server, each
\* thread serving its requests on the one Application instance.  The test
\* of the flag (250), the call of the hook (251) and the assignment (252)
\* are separate steps; there is no lock.  The hook returns here (a hook
\* that raises is the case of check_first_request above).
Threads == 1..MaxThreads

thread_start(t) ==
    /\ UNCHANGED nonThreadVars
    /\ tpc[t] \in {"idle", "past"}
    /\ served[t] < MaxRequests
    /\ served' = [served EXCEPT ![t] = @ + 1]
    /\ tpc' = [tpc EXCEPT ![t] = "test"]
    /\ UNCHANGED <<got_first_request, hookCalls>>

\* Line 250: if not self._got_first_request
thread_test_flag(t) ==
    /\ UNCHANGED nonThreadVars
    /\ tpc[t] = "test"
    /\ tpc' = [tpc EXCEPT ![t] = IF got_first_request THEN "past" ELSE "hook"]
    /\ UNCHANGED <<got_first_request, hookCalls, served>>

\* Line 251: self.before_first_request(request)
thread_call_hook(t) ==
    /\ UNCHANGED nonThreadVars
    /\ tpc[t] = "hook"
    /\ hookCalls' = hookCalls + 1
    /\ tpc' = [tpc EXCEPT ![t] = "set"]
    /\ UNCHANGED <<got_first_request, served>>

\* Line 252: self._got_first_request = True
thread_set_flag(t) ==
    /\ UNCHANGED nonThreadVars
    /\ tpc[t] = "set"
    /\ got_first_request' = TRUE
    /\ tpc' = [tpc EXCEPT ![t] = "past"]
    /\ UNCHANGED <<hookCalls, served>>

ThreadSteps ==
    \/ \E t \in Threads : thread_start(t)
    \/ \E t \in Threads : thread_test_flag(t)
    \/ \E t \in Threads : thread_call_hook(t)
    \/ \E t \in Threads : thread_set_flag(t)

\* No threads (the other specifications process one request at a time).
IdleThreads ==
    /\ tpc = [t \in {} |-> "idle"]
    /\ served = [t \in {} |-> 0]

\* Application.find_handler inside process_request's try: match the URL
\* (raise_routing_exception re-raises the routing exception), look the
\* endpoint up in self.handlers and construct the handler.
find_handler ==
    /\ UNCHANGED nonAppVars
    /\ pc = "find_handler"
    /\ LET m == Match(url_map, request)
       IN IF m = 0
          THEN /\ routing' = "notfound"
               /\ exc' = NotFound
               /\ pc' = "handle_user_exception"
               /\ UNCHANGED <<handler, session, dispatched>>
          ELSE /\ routing' = "matched"
               /\ IF url_map[m].endpoint \notin DOMAIN handlers
                  THEN /\ exc' = KeyError
                       /\ pc' = "handle_user_exception"
                       /\ UNCHANGED <<handler, session, dispatched>>
                  ELSE /\ dispatched' = handlers[url_map[m].endpoint]
                       /\ \/ /\ handler' = handlers[url_map[m].endpoint]
                             /\ \E s \in Sessions : session' = s
                             /\ pc' = "call_handler"
                             /\ UNCHANGED exc
                          \/ /\ \E x \in UserExceptions : exc' = x
                             /\ pc' = "handle_user_exception"
                             /\ UNCHANGED <<handler, session>>
    /\ UNCHANGED <<url_map, handlers, registered, phase, error_handlers, config,
                   got_first_request, request, response, nreq, budget, restarts,
                   hookCalls, hookRaised, invoked, sessionSaved, finalized, outcome>>

\* process_request line 304: response = handler(**request.view_args).
call_handler ==
    /\ UNCHANGED nonAppVars
    /\ pc = "call_handler"
    /\ \/ /\ response' = HandlerResponse(handler)
          /\ pc' = "save_session"
          /\ UNCHANGED exc
       \/ /\ \E x \in UserExceptions : exc' = x
          /\ pc' = "handle_user_exception"
          /\ UNCHANGED response
    /\ UNCHANGED <<url_map, handlers, registered, phase, error_handlers, config,
                   got_first_request, request, handler, session, nreq, budget, restarts,
                   hookCalls, hookRaised, routing, dispatched, invoked, sessionSaved,
                   finalized, outcome>>

\* What an error handler class does when it is used: its constructor
\* (Handler.__init__ with the prepare hook) raises, its method raises, or
\* it returns a response.
HandlerBehaviours == {"ctor_raises", "method_raises", "returns"}

\* Application.call_error_handler(handler_class, request, exception = e):
\* the handler is constructed outside the try, called inside it.
\* b is the behaviour of the handler class, x what its constructor raises.
call_error_handler(k, e, b, x) ==
    IF b = "ctor_raises"
    THEN [ended |-> "propagated", response |-> NoResponse, exc |-> x]
    ELSE IF b = "method_raises"
    THEN [ended |-> "ise", exc |-> NoExc,
          response |-> InternalServerError("we got an exception in the error handler")]
    ELSE [ended |-> "result", exc |-> NoExc, response |-> ErrorHandlerResponse(k, e)]

Invocation(k, e, b, r) == [key |-> k, exception |-> e, behaviour |-> b, ended |-> r.ended]

\* Mutant of handle_http_exception: the registry is not consulted.
handle_http_exception_unregistered(e) == [act |-> "return", key |-> NoKey]

\* Application.handle_http_exception: the handler registered for the
\* exception's code is called, otherwise the exception is the response.
handle_http_exception(e) ==
    IF error_handlers # <<>> /\ InSeq(CodeKey(e.code), error_handlers)
    THEN [act |-> "call", key |-> CodeKey(e.code)]
    ELSE [act |-> "return", key |-> NoKey]

\* Application.handle_user_exception: HTTP exceptions go to
\* handle_http_exception; otherwise error_handlers.items() is scanned and
\* the first non-numeric key the exception is an instance of is used;
\* without a match the exception is re-raised.
handle_user_exception_decision(e) ==
    IF e.http
    THEN handle_http_exception(e)
    ELSE LET hits == {i \in DOMAIN error_handlers :
                         /\ ~IsNumeric(error_handlers[i])
                         /\ IsInstance(e, error_handlers[i].type)}
         IN IF hits = {}
            THEN [act |-> "reraise", key |-> NoKey]
            ELSE [act |-> "call",
                  key |-> error_handlers[CHOOSE i \in hits : \A j \in hits : i <= j]]

\* process_request's except clause (305-306).
handle_user_exception ==
    /\ UNCHANGED nonAppVars
    /\ pc = "handle_user_exception"
    /\ LET d == handle_user_exception_decision(exc)
       IN CASE d.act = "return" ->
                  /\ response' = ExceptionResponse(exc)
                  /\ exc' = NoExc
                  /\ pc' = "save_session"
                  /\ UNCHANGED invoked
            [] d.act = "reraise" ->
                  /\ pc' = "handle_exception"
                  /\ UNCHANGED <<response, exc, invoked>>
            [] d.act = "call" ->
                  \E b \in HandlerBehaviours :
                  \E x \in (IF b = "ctor_raises" THEN UserExceptions ELSE {NoExc}) :
                     LET r == call_error_handler(d.key, exc, b, x)
                     IN /\ invoked' = Append(invoked, Invocation(d.key, exc, b, r))
                        /\ IF r.ended = "propagated"
                           THEN /\ exc' = r.exc
                                /\ pc' = "handle_exception"
                                /\ UNCHANGED response
                           ELSE /\ response' = r.response
                                /\ exc' = NoExc
                                /\ pc' = "save_session"
    /\ UNCHANGED <<url_map, handlers, registered, phase, error_handlers, config,
                   got_first_request, request, handler, session, nreq, budget, restarts,
                   hookCalls, hookRaised, routing, dispatched, sessionSaved, finalized, outcome>>

\* Mutant of should_save_session: the null-session test is forgotten.
should_save_session_any == handler # NoHandler

\* The test of process_request line 308.
should_save_session == handler # NoHandler /\ ~is_null_session(session)

\* process_request 308-309: save_session may raise (it is outside the try).
save_session ==
    /\ UNCHANGED nonAppVars
    /\ pc = "save_session"
    /\ IF should_save_session
       THEN \/ /\ sessionSaved' = TRUE
               /\ pc' = "finalize_response"
               /\ UNCHANGED exc
            \/ /\ \E x \in UserExceptions : exc' = x
               /\ pc' = "handle_exception"
               /\ UNCHANGED sessionSaved
       ELSE /\ pc' = "finalize_response"
            /\ UNCHANGED <<sessionSaved, exc>>
    /\ UNCHANGED <<url_map, handlers, registered, phase, error_handlers, config,
                   got_first_request, request, handler, session, response, nreq, budget,
                   restarts, hookCalls, hookRaised, routing, dispatched, invoked, finalized,
                   outcome>>

\* process_request 311: the finalize_response hook (identity by default).
finalize_response ==
    /\ UNCHANGED nonAppVars
    /\ pc = "finalize_response"
    /\ \/ /\ finalized' = finalized + 1
          /\ pc' = "respond"
          /\ UNCHANGED exc
       \/ /\ \E x \in UserExceptions : exc' = x
          /\ pc' = "handle_exception"
          /\ UNCHANGED finalized
    /\ UNCHANGED <<url_map, handlers, registered, phase, error_handlers, config,
                   got_first_request, request, handler, session, response, nreq, budget,
                   restarts, hookCalls, hookRaised, routing, dispatched, invoked,
                   sessionSaved, outcome>>

\* Application.handle_exception, the except clause of __call__ (322-323).
handle_exception ==
    /\ UNCHANGED nonAppVars
    /\ pc = "handle_exception"
    /\ IF propagate_exceptions
       THEN /\ outcome' = "escaped"
            /\ pc' = "done"
            /\ UNCHANGED <<exc, response, invoked>>
       ELSE IF ~InSeq(CodeKey(500), error_handlers)
       THEN /\ response' = InternalServerError("")
            /\ exc' = NoExc
            /\ pc' = "respond"
            /\ UNCHANGED <<outcome, invoked>>
       ELSE \E b \in HandlerBehaviours :
            \E x \in (IF b = "ctor_raises" THEN UserExceptions ELSE {NoExc}) :
               LET r == call_error_handler(CodeKey(500), exc, b, x)
               IN /\ invoked' = Append(invoked, Invocation(CodeKey(500), exc, b, r))
                  /\ IF r.ended = "propagated"
                     THEN /\ exc' = r.exc
                          /\ outcome' = "escaped"
                          /\ pc' = "done"
                          /\ UNCHANGED response
                     ELSE /\ response' = r.response
                          /\ exc' = NoExc
                          /\ pc' = "respond"
                          /\ UNCHANGED outcome
    /\ UNCHANGED <<url_map, handlers, registered, phase, error_handlers, config,
                   got_first_request, request, handler, session, nreq, budget, restarts,
                   hookCalls, hookRaised, routing, dispatched, sessionSaved, finalized>>

\* __call__ line 324: the response is handed to the server.
respond ==
    /\ UNCHANGED nonAppVars
    /\ pc = "respond"
    /\ outcome' = "response"
    /\ pc' = "done"
    /\ UNCHANGED <<url_map, handlers, registered, phase, error_handlers, config,
                   got_first_request, request, handler, session, exc, response,
                   nreq, budget, restarts, hookCalls, hookRaised, routing, dispatched, invoked,
                   sessionSaved, finalized>>

\* Application.run: when the development server ends, the finally clause
\* resets the first-request flag (523-529).
run ==
    /\ UNCHANGED nonAppVars
    /\ phase = "serving"
    /\ pc \in {"idle", "done"}
    /\ restarts < MaxRestarts
    /\ restarts' = restarts + 1
    /\ got_first_request' = FALSE
    /\ UNCHANGED <<url_map, handlers, registered, phase, error_handlers, config,
                   pc, request, handler, session, exc, response, nreq, budget,
                   hookCalls, hookRaised, routing, dispatched, invoked, sessionSaved,
                   finalized, outcome>>

ProcessRequest ==
    \/ \E p \in RequestPaths : start_request(p)
    \/ check_first_request
    \/ find_handler
    \/ call_handler
    \/ handle_user_exception
    \/ save_session
    \/ finalize_response
    \/ handle_exception
    \/ respond

---------------------------------------------------------------------------
\* The form layer (form/core.py, form/widgets.py).
\*
\* A value is a sequence of strings: <<s>> is the submitted string s, and
\* a processor that transforms a value appends its name, so that the
\* processors applied to a value, and their order, can be read off it.

Raw(str) == <<str>>
no_value == <<"no_value">>            \* core.py line 8
FormObject == <<"Form">>              \* the Form instance itself, as a value
NoValue == <<"None">>

\* processors.Error(kind, msg)
Error(kind, msg) == [kind |-> kind, msg |-> msg]
NoError == Error("", "")
messages == [required |-> "This field is required"]     \* Widget.messages

\* The processors of the model: "tag" transforms any value; "reject_bad"
\* is a validator that fails on the submitted string "bad".
Processors == {"tag", "reject_bad"}
ProcessorFails(p, v) == p = "reject_bad" /\ v[1] = "bad"
ApplyProcessor(p, v) == IF p = "tag" THEN Append(v, p) ELSE v

Ok(v) == [status |-> "ok", data |-> v, error |-> NoError, crash |-> ""]
Failed(e) == [status |-> "error", data |-> NoValue, error |-> e, crash |-> ""]
Crashed(c) == [status |-> "crash", data |-> NoValue, error |-> NoError, crash |-> c]

\* processors.process(value, procs, **ctx): each processor is applied to
\* the value the previous one produced; the first Error ends the chain.
RECURSIVE process(_, _)
process(v, procs) ==
    IF procs = <<>>
    THEN Ok(v)
    ELSE IF ProcessorFails(Head(procs), v)
    THEN Failed(Error("invalid", Head(procs)))
    ELSE process(ApplyProcessor(Head(procs), v), Tail(procs))

\* Then(r, F(_)): F applied to r's data unless r is an Error or a crash.
Then(r, F(_)) == IF r.status = "ok" THEN F(r.data) ELSE r

WidgetNames == {"a", "b"}
WidgetKinds == {"Widget", "Input"}
Chains == {<<>>, <<"tag">>, <<"reject_bad", "tag">>}
WidgetDefs == [kind : WidgetKinds, required : BOOLEAN, processors_out : Chains]
SubmittedStrings == {"", "x", "bad"}

\* Form.request: None, or a request whose form holds the submitted fields.
NoRequest == [present |-> FALSE, form |-> [n \in {} |-> ""]]
Request(f) == [present |-> TRUE, form |-> f]
Submissions == UNION {[D -> SubmittedStrings] : D \in SUBSET WidgetNames}

\* request.form.get(name, no_value)
FormGet(f, n) == IF n \in DOMAIN f THEN Raw(f[n]) ELSE no_value

\* Widget.process_out(self, form, value, **kw): the outbound chain applied
\* to the value argument, the form argument being processor context.
process_out(w, form, value) == process(value, w.processors_out)

\* Widget.from_form(self, form), core.py 132-144.  The last line calls
\* self.process_out(value, form): the submitted value is passed as the
\* form argument and the Form object as the value argument.
Widget_from_form(w, n) ==
    IF ~form_request.present
    THEN Crashed("AttributeError")            \* None has no attribute form
    ELSE LET value == FormGet(form_request.form, n)
         IN IF value = no_value /\ w.required
            THEN Failed(Error("required", messages.required))
            ELSE process_out(w, value, FormObject)

\* Input.from_form(self, request, **kw), widgets.py 11-17, as called by
\* Widget.get_value with the Form as its argument: request.form is
\* Form.__getattr__("form"), that is self.data["form"] (core.py 234-239),
\* a KeyError unless a widget is named "form", whose RenderContext then has
\* no attribute get.
Input_from_form(w, n) ==
    IF "form" \notin DOMAIN widgets
    THEN Crashed("KeyError")
    ELSE Crashed("AttributeError")

from_form(w, n) ==
    IF w.kind = "Input" THEN Input_from_form(w, n) ELSE Widget_from_form(w, n)

\* Widget.get_value(self, form), core.py 113-119.
get_value(n) ==
    LET w == widgets[n]
        Out(value) == process_out(w, FormObject, value)
    IN Then(from_form(w, n), Out)

\* The envelope Form.process hands to the form-level processors, and the
\* form-level processors of the model: "assemble" transforms the
\* envelope, "reject_form" is a validator that fails.
Envelope(o, fd, applied) == [obj |-> o, formdata |-> fd, applied |-> applied]
FormChains == {<<>>, <<"assemble">>, <<"reject_form">>}
EmptyErrors == [n \in {} |-> NoError]
EmptyResult == [n \in {} |-> NoValue]
NoEnvelope == Envelope("None", EmptyResult, <<>>)

RECURSIVE process_form(_, _)
process_form(v, procs) ==
    IF procs = <<>>
    THEN [status |-> "ok", data |-> v, error |-> NoError]
    ELSE IF Head(procs) = "reject_form"
    THEN [status |-> "error", data |-> NoEnvelope, error |-> Error("invalid", Head(procs))]
    ELSE process_form([v EXCEPT !.applied = Append(@, Head(procs))], Tail(procs))

\* How Form.process ended: "returned" (value), "FormError" (errors and
\* error_dict, FormError.__init__), "Error" (a processors.Error left it),
\* "crash" (another exception left it).
FormOutcome(kind, value, errs, e, c) ==
    [kind |-> kind, value |-> value, errors |-> errs,
     error_dict |-> [n \in DOMAIN errs |-> errs[n].msg], error |-> e, crash |-> c]
NoFormOutcome == FormOutcome("none", NoEnvelope, EmptyErrors, NoError, "")

Objects == {"None", "record"}

\* Form.process(obj, **kw), lines 256-257.
form_process_start(o) ==
    /\ UNCHANGED nonFormVars
    /\ fpc = "ready"
    /\ obj' = o
    /\ result' = EmptyResult
    /\ errors' = EmptyErrors
    /\ remaining' = DOMAIN widgets
    /\ fpc' = "loop"
    /\ UNCHANGED <<widgets, form_request, form_processors_out, evaluated, formOutcome>>

Put(f, n, v) == [x \in (DOMAIN f) \cup {n} |-> IF x = n THEN v ELSE f[x]]

\* Mutant of form_process_widget: the first validation Error ends the loop
\* and is raised as the FormError.
form_process_widget_first_error(n) ==
    /\ UNCHANGED nonFormVars
    /\ fpc = "loop"
    /\ n \in remaining
    /\ evaluated' = evaluated \cup {n}
    /\ LET g == get_value(n)
       IN CASE g.status = "ok" ->
                  /\ result' = Put(result, n, g.data)
                  /\ remaining' = remaining \ {n}
                  /\ UNCHANGED <<errors, fpc, formOutcome>>
            [] g.status = "error" ->
                  /\ errors' = Put(errors, n, g.error)
                  /\ remaining' = {}
                  /\ UNCHANGED <<result, fpc, formOutcome>>
            [] g.status = "crash" ->
                  /\ formOutcome' = FormOutcome("crash", NoEnvelope, EmptyErrors, NoError, g.crash)
                  /\ fpc' = "done"
                  /\ UNCHANGED <<result, errors, remaining>>
    /\ UNCHANGED <<widgets, form_request, form_processors_out, obj>>

\* One iteration of the loop of Form.process (258-262) for the widget
\* named n; self.data is a dict, so the order of the names is arbitrary.
\* An exception that is no processors.Error is not caught.
form_process_widget(n) ==
    /\ UNCHANGED nonFormVars
    /\ fpc = "loop"
    /\ n \in remaining
    /\ evaluated' = evaluated \cup {n}
    /\ LET g == get_value(n)
       IN CASE g.status = "ok" ->
                  /\ result' = Put(result, n, g.data)
                  /\ remaining' = remaining \ {n}
                  /\ UNCHANGED <<errors, fpc, formOutcome>>
            [] g.status = "error" ->
                  /\ errors' = Put(errors, n, g.error)
                  /\ remaining' = remaining \ {n}
                  /\ UNCHANGED <<result, fpc, formOutcome>>
            [] g.status = "crash" ->
                  /\ formOutcome' = FormOutcome("crash", NoEnvelope, EmptyErrors, NoError, g.crash)
                  /\ fpc' = "done"
                  /\ UNCHANGED <<result, errors, remaining>>
    /\ UNCHANGED <<widgets, form_request, form_processors_out, obj>>

\* Form.process lines 263-270.
form_process_finish ==
    /\ UNCHANGED nonFormVars
    /\ fpc = "loop"
    /\ remaining = {}
    /\ IF DOMAIN errors # {}
       THEN formOutcome' = FormOutcome("FormError", NoEnvelope, errors, NoError, "")
       ELSE LET r == process_form(Envelope(obj, result, <<>>), form_processors_out)
            IN IF r.status = "ok"
               THEN formOutcome' = FormOutcome("returned", r.data, EmptyErrors, NoError, "")
               ELSE formOutcome' = FormOutcome("Error", NoEnvelope, EmptyErrors, r.error, "")
    /\ fpc' = "done"
    /\ UNCHANGED <<widgets, form_request, form_processors_out, obj, remaining,
                   result, errors, evaluated>>

FormProcess ==
    \/ \E o \in Objects : form_process_start(o)
    \/ \E n \in WidgetNames : form_process_widget(n)
    \/ form_process_finish

\* The value a widget displays.  Form.default maps names to values; the
\* inbound chains of the model transform and never fail.
Defaults == UNION {[D -> {Raw("dflt")}] : D \in SUBSET WidgetNames}
InChains == {<<>>, <<"tag">>}
Display(m, n, r) == [method |-> m, name |-> n, result |-> r]
NoDisplay == Display("none", "", Ok(NoValue))

\* Lines 107-111 of get_widget_value and 126-129 of to_form, with req the
\* request of the form (of the render context, RenderContext.__init__
\* line 33): without a request the local `value` is not bound when it is
\* compared with no_value.
displayed_value(req, dflt, n) ==
    IF req.present
    THEN LET value == FormGet(req.form, n)
         IN IF value = no_value
            THEN Ok(IF n \in DOMAIN dflt THEN dflt[n] ELSE Raw(""))
            ELSE Ok(value)
    ELSE Crashed("UnboundLocalError")

\* Widget.process_in(self, value, **kw)
process_in(procs, value) == process(value, procs)

\* Widget.get_widget_value(self, form), core.py 100-111.
get_widget_value(n) ==
    /\ UNCHANGED <<appVars, formVars, flashVars, setupVars, dispatchVars, threadVars>>
    /\ displayed = NoDisplay
    /\ displayed' = Display("get_widget_value", n,
                            displayed_value(form_request, form_default, n))
    /\ UNCHANGED <<form_default, widget_processors_in>>

\* Widget.to_form(self, ctx, **kw), core.py 121-130.
to_form(n) ==
    /\ UNCHANGED <<appVars, formVars, flashVars, setupVars, dispatchVars, threadVars>>
    /\ displayed = NoDisplay
    /\ LET v == displayed_value(form_request, form_default, n)
       IN displayed' = Display("to_form", n,
                               IF v.status = "ok"
                               THEN process_in(widget_processors_in, v.data)
                               ELSE v)
    /\ UNCHANGED <<form_default, widget_processors_in>>

DisplayWidget ==
    \/ \E n \in WidgetNames : get_widget_value(n)
    \/ \E n \in WidgetNames : to_form(n)

\* No widget is displayed (the other specifications).
IdleDisplay ==
    /\ form_default = [n \in {} |-> NoValue]
    /\ widget_processors_in = <<>>
    /\ displayed = NoDisplay

\* No form in use (the Application specifications).
IdleForm ==
    /\ widgets = [n \in {} |-> [kind |-> "Widget", required |-> FALSE, processors_out |-> <<>>]]
    /\ form_request = NoRequest
    /\ form_processors_out = <<>>
    /\ fpc = "idle"
    /\ obj = "None"
    /\ remaining = {}
    /\ result = EmptyResult
    /\ errors = EmptyErrors
    /\ evaluated = {}
    /\ formOutcome = NoFormOutcome

---------------------------------------------------------------------------
\* The Handler's flash messages (handler.py).
\*
\* A message is [req, n]: the n-th message queued during request req.

Message(r, n) == [req |-> r, n |-> n]
cookie_secret == "secret"                         \* settings.cookie_secret
NoCookies == [c \in {} |-> [secret |-> "", msg |-> <<>>]]

\* Handler.encode_messages: SecureCookie({'msg': messages}, secret).serialize()
encode_messages(msgs) == [secret |-> cookie_secret, msg |-> msgs]

\* Handler.decode_messages: the 'msg' entry of the unserialized cookie 'm',
\* or the empty list without such a cookie.
decode_messages(cs) ==
    IF "m" \in DOMAIN cs
    THEN IF cs["m"].secret = cookie_secret THEN cs["m"].msg ELSE <<>>
    ELSE <<>>

\* Handler.__init__ for the next request: both attributes are bound to the
\* same new list (line 23).
Handler_init ==
    /\ UNCHANGED nonFlashVars
    /\ hpc = "none"
    /\ hreq < MaxFlashRequests
    /\ hreq' = hreq + 1
    /\ messages_in' = <<>>
    /\ messages_out' = <<>>
    /\ aliased' = TRUE
    /\ handled' = FALSE
    /\ ops' = 0
    /\ flashCount' = 0
    /\ hpc' = "constructed"
    /\ UNCHANGED <<cookies, renders, flashed, flashed_before, pending,
                   shown_before>>

\* Mutant of handle: the incoming messages are not decoded.
handle_without_decode(has) ==
    /\ UNCHANGED nonFlashVars
    /\ hpc = "constructed"
    /\ IF has
       THEN /\ handled' = TRUE
            /\ hpc' = "running"
       ELSE /\ hpc' = "finished"
            /\ UNCHANGED handled
    /\ UNCHANGED <<cookies, messages_in, messages_out, aliased, hreq, ops,
                   flashCount, renders, flashed, flashed_before, pending,
                   shown_before>>

\* Handler.handle up to the call of the method (53-63); has: the handler
\* has the method the request names.  Without it MethodNotAllowed is
\* returned (65).
handle(has) ==
    /\ UNCHANGED nonFlashVars
    /\ hpc = "constructed"
    /\ IF has
       THEN /\ messages_in' = decode_messages(cookies)
            /\ aliased' = FALSE
            /\ handled' = TRUE
            /\ hpc' = "running"
       ELSE /\ hpc' = "finished"
            /\ UNCHANGED <<messages_in, aliased, handled>>
    /\ UNCHANGED <<cookies, messages_out, hreq, ops, flashCount, renders,
                   flashed, flashed_before, pending, shown_before>>

\* Handler.flash (72-75): append to the list messages_out names.
flash ==
    /\ UNCHANGED nonFlashVars
    /\ hpc \in {"constructed", "running"}
    /\ ops < MaxOps
    /\ LET m == Message(hreq, flashCount + 1)
       IN /\ messages_out' = Append(messages_out, m)
          /\ messages_in' = IF aliased THEN Append(messages_in, m) ELSE messages_in
          /\ flashed' = Append(flashed, m)
    /\ flashCount' = flashCount + 1
    /\ ops' = ops + 1
    /\ UNCHANGED <<cookies, hpc, aliased, handled, hreq, renders, flashed_before,
                   pending, shown_before>>

\* Handler.render (34-47): flash_messages is messages_in + messages_out,
\* then messages_out is bound to a new empty list.
render ==
    /\ UNCHANGED nonFlashVars
    /\ hpc \in {"constructed", "running"}
    /\ ops < MaxOps
    /\ renders' = Append(renders, [req |-> hreq, handled |-> handled,
                                   flash_messages |-> messages_in \o messages_out])
    /\ messages_out' = <<>>
    /\ aliased' = FALSE
    /\ ops' = ops + 1
    /\ UNCHANGED <<cookies, hpc, messages_in, handled, hreq, flashCount, flashed,
                   flashed_before,                   pending, shown_before>>

\* The method handle() called returns.
method_return ==
    /\ UNCHANGED nonFlashVars
    /\ hpc = "running"
    /\ hpc' = "finished"
    /\ UNCHANGED <<cookies, messages_in, messages_out, aliased, handled, hreq,
                   ops, flashCount, renders, flashed, flashed_before,
                   pending, shown_before>>

\* End of the request: the messages still queued are written to the flash
\* cookie 'm' of the response, which the client sends with its next
\* request.  (The code that sets the cookie is not among the sources; it
\* is modelled on the specification: the flash cookie is written once at
\* the end of the request, from the queued messages.)
end_request ==
    /\ UNCHANGED nonFlashVars
    /\ hpc = "finished"
    /\ cookies' = [c \in {"m"} |-> encode_messages(messages_out)]
    /\ pending' = messages_out
    /\ shown_before' = {pending[k] : k \in {j \in DOMAIN pending :
                            \E i \in DOMAIN renders :
                                /\ renders[i].handled
                                /\ InSeq(pending[j], renders[i].flash_messages)}}
    /\ flashed_before' = flashed
    /\ flashed' = <<>>
    /\ renders' = <<>>
    /\ hpc' = "none"
    /\ UNCHANGED <<messages_in, messages_out, aliased, handled, hreq, ops,
                   flashCount>>

---------------------------------------------------------------------------
\* Handler.handle: the method it calls (handler.py 53-65).

\* The attributes every Handler instance has: the methods of the base
\* class and the data attributes (class attribute template, and those
\* __init__ sets).
BaseMethods == {"prepare", "prepare_render", "render", "redirect", "handle",
                "flash", "decode_messages", "encode_messages"}
DataAttributes == {"template", "app", "request", "settings", "log",
                   "messages_in", "messages_out"}
VerbNames == {"get", "post", "delete"}

\* hasattr(self, name) for a handler whose class defines the methods cls.
hasattr(cls, name) == name \in cls \cup BaseMethods \cup DataAttributes

\* str.lower() on the strings of the model.
lower(str) ==
    CASE str = "GET" -> "get"
      [] str = "POST" -> "post"
      [] str = "DELETE" -> "delete"
      [] str = "Post" -> "post"
      [] OTHER -> str

HttpMethods == {"GET", "POST", "DELETE"}
MethodParams == {"post", "Post", "delete", "patch", "prepare", "flash", "template"}
NoValues == [k \in {} |-> ""]
HandleRequests ==
    [method : HttpMethods,
     values : {NoValues} \cup {[k \in {"method"} |-> v] : v \in MethodParams}]

\* request.values.get("method", method)
values_get(values, default) ==
    IF "method" \in DOMAIN values THEN values["method"] ELSE default

\* The name handle() looks up (56-58).
method_name(req) == lower(values_get(req.values, req.method))

\* Lines 59-65: getattr(self, method)(**m) if the handler has the
\* attribute, whatever it is; calling a data attribute is a TypeError.
\* result "called": handle() ends as the call of the attribute does.
handle_call(cls, req) ==
    LET method == method_name(req)
    IN IF hasattr(cls, method)
       THEN IF method \in DataAttributes
            THEN [called |-> "None", result |-> "TypeError"]
            ELSE [called |-> method, result |-> "called"]
       ELSE [called |-> "None", result |-> "MethodNotAllowed"]

handle_dispatch ==
    /\ UNCHANGED <<appVars, formVars, flashVars, setupVars, threadVars, displayVars>>
    /\ dpc = "ready"
    /\ hcalled' = handle_call(hclass, hrequest).called
    /\ hresult' = handle_call(hclass, hrequest).result
    /\ dpc' = "done"
    /\ UNCHANGED <<hrequest, hclass>>

\* No handle() call is being looked at (the other specifications).
IdleDispatch ==
    /\ hrequest = [method |-> "GET", values |-> NoValues]
    /\ hclass = {}
    /\ hcalled = "None"
    /\ hresult = "None"
    /\ dpc = "idle"

FlashRequests ==
    \/ Handler_init
    \/ \E has \in BOOLEAN : handle(has)
    \/ flash
    \/ render
    \/ method_return
    \/ end_request

\* No Handler in use (the other specifications).
IdleFlash ==
    /\ cookies = NoCookies
    /\ hpc = "none"
    /\ messages_in = <<>>
    /\ messages_out = <<>>
    /\ aliased = FALSE
    /\ handled = FALSE
    /\ hreq = 0
    /\ ops = 0
    /\ flashCount = 0
    /\ renders = <<>>
    /\ flashed = <<>>
    /\ flashed_before = <<>>
    /\ pending = <<>>
    /\ shown_before = {}

\* The smaller parts are not in use.
IdleParts ==
    /\ IdleSetup
    /\ IdleDispatch
    /\ IdleThreads
    /\ IdleDisplay

---------------------------------------------------------------------------
\* Initial states.

\* The error-handler registries the model draws from: any subset of the
\* codes 404 and 500 and any duplicate-free sequence of the exception
\* classes AppError and Exception (the order is that of dict.items()).
CodeTables == {<<>>, <<CodeKey(404)>>, <<CodeKey(500)>>, <<CodeKey(404), CodeKey(500)>>}
TypeTables == {<<>>, <<TypeKey("AppError")>>, <<TypeKey("Exception")>>,
               <<TypeKey("AppError"), TypeKey("Exception")>>,
               <<TypeKey("Exception"), TypeKey("AppError")>>}
ErrorHandlerTables == {c \o t : c \in CodeTables, t \in TypeTables}

IdleRequest ==
    /\ pc = "idle"
    /\ request = "None"
    /\ handler = NoHandler
    /\ session = "null"
    /\ exc = NoExc
    /\ response = NoResponse
    /\ nreq = 0
    /\ restarts = 0
    /\ hookCalls = 0
    /\ hookRaised = FALSE
    /\ routing = "none"
    /\ dispatched = NoHandler
    /\ invoked = <<>>
    /\ sessionSaved = FALSE
    /\ finalized = 0
    /\ outcome = "none"

\* An Application with the class-level route ("/a", endpoint "a", H1),
\* constructed; the configuration and the error handlers are drawn.
Init ==
    /\ url_map = add_url_rule_map(add_url_rule_map(<<>>, "/a", "a", "H1"),
                                  StaticPath, StaticEndpoint, StaticFileHandler)
    /\ handlers = add_url_rule_handlers(add_url_rule_handlers(NoHandlers, "/a", "a", "H1"),
                                        StaticPath, StaticEndpoint, StaticFileHandler)
    /\ registered = <<Route("/a", "a", "H1")>>
    /\ phase = "serving"
    /\ error_handlers \in ErrorHandlerTables
    /\ config \in Configs
    /\ got_first_request = FALSE
    /\ budget = MaxRequests
    /\ IdleRequest
    /\ IdleForm
    /\ IdleFlash
    /\ IdleParts

Next ==
    \/ ProcessRequest
    \/ run

Spec == Init /\ [][Next]_vars

\* An Application under construction: __init__ has set up the empty map;
\* the class-level routes, the static rule and later add_url_rule calls
\* follow as steps.  Default configuration, no error handlers; one
\* request is dispatched once the routes are registered.
InitRoutes ==
    /\ url_map = <<>>
    /\ handlers = NoHandlers
    /\ registered = <<>>
    /\ phase = "init"
    /\ error_handlers = <<>>
    /\ config = enforced_defaults
    /\ got_first_request = FALSE
    /\ budget = 1
    /\ IdleRequest
    /\ IdleForm
    /\ IdleFlash
    /\ IdleParts

NextRoutes ==
    \/ \E p \in UserPaths, ep \in UserEndpoints, h \in UserHandlers : add_url_rule(p, ep, h)
    \/ init_static
    \/ ProcessRequest

SpecRoutes == InitRoutes /\ [][NextRoutes]_vars


\* A constructed Form: one or two widgets drawn from WidgetDefs, a request
\* drawn from the submissions (or no request), form-level processors drawn
\* from FormChains.  The Application is not in use.
IdleApplicationButConfig ==
    /\ url_map = <<>>
    /\ handlers = NoHandlers
    /\ registered = <<>>
    /\ phase = "none"
    /\ error_handlers = <<>>
    /\ got_first_request = FALSE
    /\ budget = 0
    /\ IdleRequest

IdleApplication ==
    /\ IdleApplicationButConfig
    /\ config = enforced_defaults

InitForm ==
    /\ IdleApplication
    /\ widgets \in UNION {[D -> WidgetDefs] : D \in (SUBSET WidgetNames) \ {{}}}
    /\ form_request \in {NoRequest} \cup {Request(f) : f \in Submissions}
    /\ form_processors_out \in FormChains
    /\ fpc = "ready"
    /\ obj = "None"
    /\ remaining = {}
    /\ result = EmptyResult
    /\ errors = EmptyErrors
    /\ evaluated = {}
    /\ formOutcome = NoFormOutcome
    /\ IdleFlash
    /\ IdleParts

NextForm == FormProcess

SpecForm == InitForm /\ [][NextForm]_vars

\* A client without cookies sends requests, one after the other, each
\* served by a new Handler; the Application and the form are not in use.
InitFlash ==
    /\ IdleApplication
    /\ IdleForm
    /\ IdleFlash
    /\ IdleParts

NextFlash == FlashRequests

SpecFlash == InitFlash /\ [][NextFlash]_vars

\* Application.__init__ at line 95, the three layers drawn; no routes, no
\* requests.
InitConfig ==
    /\ IdleApplicationButConfig
    /\ config = NoConfig
    /\ class_defaults \in Layers
    /\ ctor_config \in Layers
    /\ ctor_kw \in Layers
    /\ cpc = "new"
    /\ IdleForm
    /\ IdleFlash
    /\ IdleDispatch
    /\ IdleThreads
    /\ IdleDisplay

NextConfig == Configure

SpecConfig == InitConfig /\ [][NextConfig]_vars

\* A Handler whose class defines some of the verb-named methods, and a
\* request with a method and possibly a 'method' parameter.
InitHandle ==
    /\ IdleApplication
    /\ IdleForm
    /\ IdleFlash
    /\ IdleSetup
    /\ IdleThreads
    /\ IdleDisplay
    /\ hrequest \in HandleRequests
    /\ hclass \in SUBSET VerbNames
    /\ hcalled = "None"
    /\ hresult = "None"
    /\ dpc = "ready"

NextHandle == handle_dispatch

SpecHandle == InitHandle /\ [][NextHandle]_vars

\* A Form constructed with or without a request and with a default, and
\* a widget with an inbound chain; Form.process is not called.
InitDisplay ==
    /\ IdleApplication
    /\ IdleFlash
    /\ IdleSetup
    /\ IdleDispatch
    /\ IdleThreads
    /\ widgets = [n \in {} |-> [kind |-> "Widget", required |-> FALSE, processors_out |-> <<>>]]
    /\ form_request \in {NoRequest} \cup {Request(f) : f \in Submissions}
    /\ form_processors_out = <<>>
    /\ fpc = "idle"
    /\ obj = "None"
    /\ remaining = {}
    /\ result = EmptyResult
    /\ errors = EmptyErrors
    /\ evaluated = {}
    /\ formOutcome = NoFormOutcome
    /\ form_default \in Defaults
    /\ widget_processors_in \in InChains
    /\ displayed = NoDisplay

NextDisplay == DisplayWidget

SpecDisplay == InitDisplay /\ [][NextDisplay]_vars

\* A constructed Application (line 114: the flag is False) whose requests
\* are served by the threads of the hosting server.
InitThreads ==
    /\ IdleApplication
    /\ IdleForm
    /\ IdleFlash
    /\ IdleSetup
    /\ IdleDispatch
    /\ IdleDisplay
    /\ tpc = [t \in Threads |-> "idle"]
    /\ served = [t \in Threads |-> 0]

NextThreads == ThreadSteps

SpecThreads == InitThreads /\ [][NextThreads]_vars


---------------------------------------------------------------------------
\* Claims about the Application.

\* C1 (as claimed): whenever an error handler invoked through
\* call_error_handler raises, in its constructor or in its method, the
\* call ends with the generic InternalServerError response, the exception
\* does not propagate, and no further error handler is invoked.
C1_ErrorHandlerFailureContained ==
    \A i \in DOMAIN invoked :
        invoked[i].behaviour # "returns" =>
            /\ invoked[i].ended = "ise"
            /\ i = Len(invoked)

\* C2 (as claimed): in production mode (propagate_exceptions false) every
\* request ends with a response; no exception escapes __call__.
C2_ProductionAlwaysResponds ==
    (~propagate_exceptions /\ pc = "done") => outcome = "response"

\* C3 (as claimed): once a request has passed check_first_request, the
\* before_first_request hook has been invoked exactly once in total,
\* whatever the number of requests.
C3_HookExactlyOnce ==
    (nreq >= 1 /\ pc # "check_first_request") => hookCalls = 1

\* The response process_request holds is the one its try/except produced.
FromCascade ==
    \/ pc \in {"save_session", "finalize_response"}
    \/ pc \in {"respond", "done"} /\ finalized = 1

\* C7: when routing finds no route, a handler registered for 404 is the
\* first error handler invoked, with the routing NotFound as its exception
\* argument, and what it returns is the response (the generic
\* InternalServerError if its method raises); without a registration the
\* NotFound itself is the response and no error handler is invoked.
C7_NotFoundHandling ==
    (routing = "notfound" /\ pc # "handle_user_exception") =>
        IF InSeq(CodeKey(404), error_handlers)
        THEN /\ Len(invoked) >= 1
             /\ invoked[1].key = CodeKey(404)
             /\ invoked[1].exception = NotFound
             /\ FromCascade =>
                    /\ Len(invoked) = 1
                    /\ invoked[1].ended = "result" =>
                           response = ErrorHandlerResponse(CodeKey(404), NotFound)
                    /\ invoked[1].ended # "result" =>
                           response.kind = "ise"
        ELSE FromCascade =>
                 /\ invoked = <<>>
                 /\ response = ExceptionResponse(NotFound)

C7_Witness ==
    /\ routing = "notfound"
    /\ InSeq(CodeKey(404), error_handlers)
    /\ pc = "done"
    /\ outcome = "response"
    /\ finalized = 1
    /\ response = ErrorHandlerResponse(CodeKey(404), NotFound)

\* The endpoint a registered route ends up with.
RouteEndpoint(r) == EndpointOf(r.endpoint, r.handler)

\* Routing of the current request is over.
Routed == routing # "none"

Unambiguous(i) ==
    /\ RouteEndpoint(registered[i]) # StaticEndpoint
    /\ \A j \in DOMAIN registered :
           j # i =>
               /\ registered[j].path # registered[i].path
               /\ RouteEndpoint(registered[j]) = RouteEndpoint(registered[i]) =>
                      registered[j].handler \in {registered[i].handler, NoHandler}

C9_SessionSavedOnlyForHandlerSession ==
    /\ sessionSaved => (handler # NoHandler /\ ~is_null_session(session))
    /\ routing = "notfound" => (handler = NoHandler /\ ~sessionSaved)

C9_Witness ==
    /\ sessionSaved
    /\ handler = "H1"
    /\ session = "data"
    /\ pc = "done"
    /\ outcome = "response"

---------------------------------------------------------------------------
\* Claims about the form layer.

\* The widgets of the form whose get_value raises a validation Error.
FailingWidgets == {n \in DOMAIN widgets : get_value(n).status = "error"}

OmittedOrEmpty(n) ==
    /\ form_request.present
    /\ n \in DOMAIN form_request.form => form_request.form[n] = ""

\* C5 (as claimed): for a required text field (an Input widget), a
\* submission without the field and one with the empty string both end
\* with a 'required' error for the field in the FormError's error map.
C5_RequiredTextFieldError ==
    \A n \in DOMAIN widgets :
        (fpc = "done" /\ widgets[n].kind = "Input" /\ widgets[n].required
                      /\ OmittedOrEmpty(n)) =>
            /\ formOutcome.kind = "FormError"
            /\ n \in DOMAIN formOutcome.errors
            /\ formOutcome.errors[n].kind = "required"

\* C6 (as claimed): when Form.process returns, the value holds the obj
\* passed in and a field dictionary with one entry per widget name, the
\* widget's converted value: its outbound chain applied to the submitted
\* value.  With no form-level processors nothing else is changed.
C6_ValidFormReturnsObjAndFields ==
    formOutcome.kind = "returned" =>
        /\ formOutcome.value.obj = obj
        /\ DOMAIN formOutcome.value.formdata = DOMAIN widgets
        /\ \A n \in DOMAIN widgets :
               formOutcome.value.formdata[n] =
                   process(FormGet(form_request.form, n), widgets[n].processors_out).data
        /\ form_processors_out = <<>> => formOutcome.value.applied = <<>>

---------------------------------------------------------------------------
\* Claims about the Handler's flash messages.

\* The render calls made after handle() in a request later than the first.
LaterRenders == {i \in DOMAIN renders : renders[i].handled /\ hreq >= 2}
Shows(i, m) == InSeq(m, renders[i].flash_messages)

---------------------------------------------------------------------------
\* Claims about validation failures and Form.process.

\* C11: a validation failure never leaves Form.process as a raw
\* processors.Error; the only validation exception it raises is a FormError
\* whose error map has an entry for every failing widget.
C11_ValidationOnlyAsFormError ==
    /\ formOutcome.kind # "Error"
    /\ formOutcome.kind = "FormError" => DOMAIN formOutcome.errors = FailingWidgets

---------------------------------------------------------------------------
\* Claims about the configuration.

\* The value the highest layer defining k gives it, in the order enforced
\* defaults < class defaults < config argument < keyword arguments.
Defined(k) ==
    k \in DOMAIN enforced_defaults \cup DOMAIN class_defaults
          \cup DOMAIN ctor_config \cup DOMAIN ctor_kw
HighestLayer(k) ==
    IF k \in DOMAIN ctor_kw THEN ctor_kw[k]
    ELSE IF k \in DOMAIN ctor_config THEN ctor_config[k]
    ELSE IF k \in DOMAIN class_defaults THEN class_defaults[k]
    ELSE enforced_defaults[k]

\* C12: after construction every option has the value of the highest layer
\* that defines it, and every key of the enforced defaults is present.
C12_ConfigLayering ==
    cpc = "done" =>
        /\ \A k \in DOMAIN enforced_defaults \cup {"log_filename"} :
               IF Defined(k)
               THEN k \in DOMAIN config /\ config[k] = HighestLayer(k)
               ELSE k \notin DOMAIN config
        /\ DOMAIN enforced_defaults \subseteq DOMAIN config

\* All three drawn layers define debug, with the values TRUE, FALSE, TRUE
\* from the lowest up, the lower two define propagate_exceptions and only
\* the class defaults define log_filename.
C12_Witness ==
    /\ cpc = "done"
    /\ class_defaults = [debug |-> TRUE, propagate_exceptions |-> "True",
                         log_filename |-> "app.log"]
    /\ ctor_config = [debug |-> FALSE, propagate_exceptions |-> "False"]
    /\ ctor_kw = [debug |-> TRUE]
    /\ config = [debug |-> TRUE, propagate_exceptions |-> "False", testing |-> FALSE,
                 log_filename |-> "app.log"]

---------------------------------------------------------------------------
\* Claims about Handler.handle.

\* C13: handle() calls the verb-named method that the lowercased 'method'
\* parameter, or without it the lowercased HTTP method, names; what it
\* calls is always a verb-named method of the handler; without such a
\* method it returns MethodNotAllowed and calls nothing.
C13_VerbMethodDispatch ==
    dpc = "done" =>
        LET method == lower(IF "method" \in DOMAIN hrequest.values
                            THEN hrequest.values["method"]
                            ELSE hrequest.method)
        IN /\ hcalled # "None" => hcalled \in hclass \cap VerbNames
           /\ method \in hclass \cap VerbNames =>
                  hcalled = method /\ hresult = "called"
           /\ method \notin hclass \cap VerbNames =>
                  hcalled = "None" /\ hresult = "MethodNotAllowed"

---------------------------------------------------------------------------
\* Claims about a before_first_request hook that raises.

\* The hook raised in the request being processed: process_request was
\* left before find_handler ran.
HookRaisedNow ==
    routing = "none" /\ pc \notin {"idle", "check_first_request", "find_handler"}

\* C14: once before_first_request has raised it is not invoked again on a
\* later request, and its exception goes through the cascade of the
\* request: it reaches the outermost layer only if no registered handler
\* matches it or the matching handler was called.
C14_RaisingHookNotRetriedAndClassified ==
    /\ hookRaised => hookCalls = 1
    /\ (HookRaisedNow /\ pc = "handle_exception") =>
           \/ handle_user_exception_decision(exc).act = "reraise"
           \/ invoked # <<>>

---------------------------------------------------------------------------
\* Claims about concurrent first requests.

\* C15: with requests processed concurrently by several threads,
\* before_first_request is invoked at most once.
C15_HookAtMostOnceConcurrently ==
    hookCalls <= 1

---------------------------------------------------------------------------
\* Claims about the choice of the error handler for a user exception.

\* The keys of the registry in the order the class statement wrote them:
\* the codes, then AppError, then its base class Exception.  The order of
\* error_handlers itself is that of dict.items().
RegistrationOrder ==
    SelectSeq(<<CodeKey(404), CodeKey(500), TypeKey("AppError"), TypeKey("Exception")>>,
              LAMBDA k : InSeq(k, error_handlers))
RegisteredMatches(e) ==
    {i \in DOMAIN RegistrationOrder :
        /\ ~IsNumeric(RegistrationOrder[i])
        /\ IsInstance(e, RegistrationOrder[i].type)}
EarliestRegisteredMatch(e) ==
    RegistrationOrder[CHOOSE i \in RegisteredMatches(e) :
                          \A j \in RegisteredMatches(e) : i <= j]

\* C16: for an exception that is no HTTP exception only the non-numeric
\* keys are considered, the handler called is that of the earliest
\* registered key whose type matches, and without a match the exception is
\* re-raised.
C16_EarliestRegisteredTypeWins ==
    /\ \A i \in DOMAIN invoked :
           LET e == invoked[i].exception
           IN ~e.http =>
                  \/ /\ ~IsNumeric(invoked[i].key)
                     /\ RegisteredMatches(e) # {}
                     /\ invoked[i].key = EarliestRegisteredMatch(e)
                  \/ invoked[i].key = CodeKey(500)
    /\ (pc = "handle_exception" /\ routing # "none" /\ ~exc.http /\ invoked = <<>>) =>
           RegisteredMatches(exc) = {}

---------------------------------------------------------------------------
\* Claims about the outermost layer.

\* The propagate policy as the claim states it.
PropagatePolicy ==
    IF config.propagate_exceptions = "None"
    THEN config.testing \/ config.debug
    ELSE config.propagate_exceptions = "True"

C18_ResponseFinalizedOnce ==
    outcome = "response" => finalized = 1

---------------------------------------------------------------------------
\* Claims about the value a widget displays.

\* The value the precedence rule gives the widget named n: the submitted
\* value, else the default, else the empty string.
PrecedenceValue(n) ==
    IF form_request.present /\ n \in DOMAIN form_request.form
    THEN Raw(form_request.form[n])
    ELSE IF n \in DOMAIN form_default THEN form_default[n] ELSE Raw("")

\* C19: get_widget_value returns, and to_form passes to the inbound chain,
\* the submitted value of the field if the form has a request containing
\* it, otherwise the default of the field, otherwise the empty string,
\* with or without a request.
C19_DisplayedValuePrecedence ==
    /\ displayed.method = "get_widget_value" =>
           displayed.result = Ok(PrecedenceValue(displayed.name))
    /\ displayed.method = "to_form" =>
           displayed.result = process(PrecedenceValue(displayed.name), widget_processors_in)

---------------------------------------------------------------------------
\* Claims about Widget.get_value.

\* What the claim says get_value gives for the base Widget named n: the
\* 'required' error for a required widget whose value is missing or empty,
\* otherwise the outbound chain applied once to the raw submitted value.
ClaimedValue(n) ==
    LET raw == FormGet(form_request.form, n)
    IN IF widgets[n].required /\ raw \in {no_value, Raw("")}
       THEN Failed(Error("required", messages.required))
       ELSE process(raw, widgets[n].processors_out)

\* C20: for a base Widget, get_value reads the raw submitted value, raises
\* the 'required' error if it is missing or empty and the widget is
\* required, and otherwise returns the outbound chain applied exactly once,
\* in order, to that raw value.
C20_GetValueAppliesChainOnce ==
    \A n \in evaluated :
        (widgets[n].kind = "Widget" /\ form_request.present) =>
            LET c == ClaimedValue(n)
            IN IF c.status = "ok"
               THEN n \in DOMAIN result /\ result[n] = c.data
               ELSE n \in DOMAIN errors /\ errors[n] = c.error

---------------------------------------------------------------------------
\* Claims about flash() and render() on one Handler instance.

\* The number of times m occurs in the sequence s.
Occurrences(m, s) == Cardinality({k \in DOMAIN s : s[k] = m})

\* The renders of the handler serving the request show each message
\* queued by it at most once, in one render only, and after the incoming
\* messages (those of an earlier request).
QueuedShownOnce ==
    \A k \in DOMAIN flashed :
        /\ \A i \in DOMAIN renders :
               Occurrences(flashed[k], renders[i].flash_messages) <= 1
        /\ \A i, j \in DOMAIN renders :
               (Shows(i, flashed[k]) /\ Shows(j, flashed[k])) => i = j
IncomingFirst ==
    \A i \in DOMAIN renders :
        LET fm == renders[i].flash_messages
        IN \A a, b \in DOMAIN fm : (fm[a].req < fm[b].req) => a < b

\* C21: for one Handler instance and any sequence of flash() and render()
\* calls, with or without handle(), a render shows each message queued
\* since the previous render exactly once, after the incoming messages,
\* and no later render shows it again; flash() never changes messages_in.
C21_FlashRenderSequences ==
    /\ [](QueuedShownOnce /\ IncomingFirst)
    /\ [][(flashCount' = flashCount + 1) => (messages_in' = messages_in)]_vars
    /\ [][(Len(renders') = Len(renders) + 1) =>
              \A k \in DOMAIN messages_out :
                  Occurrences(messages_out[k], renders'[Len(renders')].flash_messages) = 1]_vars

=============================================================================
